---- MODULE Spec2Model ----
(***************************************************************************)
(* Scheduled multi-platform publish dispatcher of social-stream-backend.   *)
(*                                                                         *)
(* The model follows src/services/scheduler.service.js at the granularity  *)
(* of its awaits: a run of checkScheduledPosts (one per cron tick or       *)
(* server instance) is a process that is suspended at exactly one awaited  *)
(* call (Post.find, User.findById, a platform service call, post.save);    *)
(* the synchronous code between two awaits is one atomic step.  The job    *)
(* store (posts), the account store (users) and the platforms are shared   *)
(* by all runs and by the HTTP handlers of post.controller.js.             *)
(***************************************************************************)
EXTENDS Integers, Sequences, FiniteSets, TLC

(***************************************************************************)
(* Bounds of the model.                                                    *)
(***************************************************************************)
NumJobs  == 2      \* posts in the job store
NumTicks == 2      \* runs of checkScheduledPosts that may overlap
MaxTime  == 2      \* the clock runs over 1..MaxTime
MaxCalls == 2      \* publishCalls counts up to MaxCalls and saturates
MaxFaults  == 1    \* store outages: an operation of a pass rejects
MaxUpdates == 1    \* updatePost requests served
NumRequests == 3   \* OAuth callback requests received
NumDisconnects == 1   \* disconnect requests received
MaxPosts  == 12    \* documents in the collection queried by the selector
MaxOthers == 2     \* of them, documents that are drafts or due after time 1
MaxClock == 7      \* with OAuth callbacks the clock runs over 1..MaxClock

(***************************************************************************)
(* Program constants.                                                      *)
(***************************************************************************)
BatchLimit == 10   \* .limit(10)
Retention  == 5    \* setTimeout(..., 5 * 60 * 1000): minutes, the unit of `now`

JobIds == 1..NumJobs
Ticks  == 1..NumTicks
Times  == 1..MaxTime

\* Post.model.js: enum of `platforms`, enum of `status`
PostPlatforms == {"twitter", "facebook", "instagram", "pinterest", "linkedin"}
PostStatuses  == {"draft", "scheduled", "published", "failed"}

\* User.model.js: enum of connectedAccounts.platform
AccountPlatforms == {"facebook", "instagram", "pinterest"}

NoUser    == [none |-> "user"]
NoAccount == [none |-> "account"]
NoPost    == [none |-> "post"]
NoMedia   == {"undefined"}

(***************************************************************************)
(* A media URL is represented by the set of the substrings, among those    *)
(* the code tests with String.includes, that occur in it.                  *)
(***************************************************************************)
includes(url, sub) == sub \in url

mediaUrl0(post) == post.mediaUrl          \* post.mediaUrls?.[0]

\* scheduler.service.js:73-77
isVideo(mediaUrl) ==
    /\ mediaUrl # NoMedia
    /\ \/ includes(mediaUrl, ".mp4")
       \/ includes(mediaUrl, ".mov")
       \/ includes(mediaUrl, ".avi")

\* mutant: Pinterest classifies by the three file extensions only
isVideoForPinterestByExtension(mediaUrl) ==
    /\ mediaUrl # NoMedia
    /\ \/ includes(mediaUrl, ".mp4")
       \/ includes(mediaUrl, ".mov")
       \/ includes(mediaUrl, ".avi")

\* scheduler.service.js:105-110
isVideoForPinterest(mediaUrl) ==
    /\ mediaUrl # NoMedia
    /\ \/ includes(mediaUrl, ".mp4")
       \/ includes(mediaUrl, ".mov")
       \/ includes(mediaUrl, ".avi")
       \/ includes(mediaUrl, "video")

(***************************************************************************)
(* State.                                                                  *)
(*   now           the wall clock (new Date())                             *)
(*   posts         the job store: one Post document per job id             *)
(*   users         the account store: user id -> User document             *)
(*   boardId       process.env.PINTEREST_BOARD_ID is set                   *)
(*   run           per run of checkScheduledPosts: where it is suspended   *)
(*                 and its local variables                                 *)
(*   faults        how many store operations have rejected so far          *)
(*   updates       how many updatePost requests have been served           *)
(*   publishCalls  how often a platform's publish operation was invoked    *)
(*                 for a job (observer of the platforms' side)             *)
(*   leftPending   the jobs whose status has been other than 'scheduled'   *)
(*                 at some time (observer)                                 *)
(***************************************************************************)
VARIABLES now, posts, users, boardId, run, faults, updates, publishCalls, leftPending

(***************************************************************************)
(* State of the OAuth callbacks of social.controller.js.                   *)
(*   processedCodes  global.processed<Platform>Codes, one Set per platform *)
(*                   (an undefined global is the empty set)                *)
(*   timers          the pending setTimeout callbacks                      *)
(*   callbacks       per callback request: where its handler is suspended, *)
(*                   its inputs, when it arrived and what it answered      *)
(***************************************************************************)
VARIABLES processedCodes, timers, callbacks

oauthVars == <<processedCodes, timers, callbacks>>

(***************************************************************************)
(* State of the selector on its own: the query of checkScheduledPosts      *)
(* applied to a posts collection larger than its limit.                    *)
(*   collection  the documents of the posts collection, in natural order   *)
(*   batch       scheduledPosts, the result of the latest query            *)
(***************************************************************************)
VARIABLES collection, batch

selectorVars == <<collection, batch>>

\* the answer of the last immediate publish request (post.controller.js),
\* the call of instagramService.publishVideo in progress and the disconnect
\* requests (social.controller.js)
VARIABLES immediate, video, disconnects

requestVars == <<immediate, video, disconnects>>

vars == <<now, posts, users, boardId, run, faults, updates, publishCalls, leftPending,
          processedCodes, timers, callbacks, collection, batch,
         immediate, video, disconnects>>

UserIds == {"u1"}

\* a connectedAccounts entry (User.model.js connectedAccountSchema)
Account(p, exp, ig) ==
    [platform |-> p, isActive |-> TRUE, expiresAt |-> exp, businessAccountId |-> ig]

(***************************************************************************)
(* Inputs.  The owner has linked Facebook (token expiring at time 1),      *)
(* Instagram (token valid for the whole run) and Pinterest (token expired  *)
(* before the run); no Twitter account can exist (schema enum).            *)
(***************************************************************************)
AccountInputs ==
    { << Account("facebook", 1, FALSE),
         Account("instagram", MaxTime + 1, TRUE),
         Account("pinterest", 0, FALSE) >> }

PostInputs ==
    { [user |-> "u1", platforms |-> << "facebook", "instagram" >>,
       mediaUrl |-> {}, scheduledDate |-> 1, status |-> "scheduled"],
      [user |-> "u1", platforms |-> << "twitter", "pinterest" >>,
       mediaUrl |-> {}, scheduledDate |-> 1, status |-> "scheduled"],
      [user |-> "u1", platforms |-> << "twitter" >>,
       mediaUrl |-> {".mp4"}, scheduledDate |-> MaxTime, status |-> "scheduled"],
      [user |-> "u1", platforms |-> << >>,
       mediaUrl |-> NoMedia, scheduledDate |-> MaxTime, status |-> "scheduled"] }

\* the store holds NumJobs different posts
StoreInputs ==
    { f \in [JobIds -> PostInputs] : \A i, j \in JobIds : i # j => f[i] # f[j] }

Requests == 1..NumRequests
Codes    == {"c1", "c2"}        \* authorization codes

\* a callback request that has not been received yet
NoCallback ==
    [ pc |-> "none", platform |-> "none", code |-> "none", userId |-> "none",
      arrived |-> 0, response |-> "none", user |-> NoUser ]

\* no immediate publish request has been answered
NoResponse ==
    [ code |-> 0, platforms |-> << >>, mediaUrl |-> NoMedia, results |-> << >>,
      errors |-> << >>, calls |-> << >>, status |-> "none" ]

TerminalStatuses == {"published", "failed"}

\* the user documents of the inputs; version is the document's __v
UserDocs == [connectedAccounts : AccountInputs, version : {0}]

Disconnects == 1..NumDisconnects

\* a disconnect request that has not been received yet
NoDisconnect ==
    [ pc |-> "none", platform |-> "none", response |-> "none", user |-> NoUser,
      modified |-> FALSE ]

\* publishVideo has not been called
NoVideo ==
    [ pc |-> "none", status |-> "none", attempts |-> 0, mediaPublish |-> 0 ]

IdleRun ==
    [ pc |-> "idle", scheduledPosts |-> << >>, post |-> NoPost, user |-> NoUser,
      k |-> 0, results |-> << >>, errors |-> << >>, error |-> "none",
      published |-> {}, expired |-> FALSE ]

Init ==
    /\ now = 1
    /\ posts \in StoreInputs
    /\ users \in [UserIds -> UserDocs]
    /\ boardId = TRUE
    /\ run = [t \in Ticks |-> IdleRun]
    /\ publishCalls = [j \in JobIds |-> [p \in AccountPlatforms |-> 0]]
    /\ faults = 0
    /\ updates = 0
    /\ leftPending = {}
    /\ processedCodes = [p \in AccountPlatforms |-> {}]
    /\ timers = {}
    /\ callbacks = [r \in Requests |-> NoCallback]
    /\ collection = << >>
    /\ batch = << >>
    /\ immediate = NoResponse
    /\ video = NoVideo
    /\ disconnects = [d \in Disconnects |-> NoDisconnect]

(***************************************************************************)
(* Inputs at the edges of what the store can hold: a job that names a      *)
(* platform twice (the schema's enum checks each element of platforms, not *)
(* their distinctness) and a job whose owner document is gone from the     *)
(* users collection.  The second job of the store is an ordinary Facebook  *)
(* and Instagram job.                                                      *)
(***************************************************************************)
EdgePostInputs ==
    { [user |-> "u1", platforms |-> << "facebook", "facebook" >>,
       mediaUrl |-> {}, scheduledDate |-> 1, status |-> "scheduled"],
      [user |-> "u0", platforms |-> << "instagram" >>,
       mediaUrl |-> {}, scheduledDate |-> 1, status |-> "scheduled"] }

OrdinaryPost ==
    [user |-> "u1", platforms |-> << "facebook", "instagram" >>,
     mediaUrl |-> {}, scheduledDate |-> 1, status |-> "scheduled"]

EdgeStoreInputs ==
    { [j \in JobIds |-> IF j = 1 THEN p ELSE OrdinaryPost] : p \in EdgePostInputs }

EdgeInit ==
    /\ now = 1
    /\ posts \in EdgeStoreInputs
    /\ users \in [UserIds -> UserDocs]
    /\ boardId = TRUE
    /\ run = [t \in Ticks |-> IdleRun]
    /\ publishCalls = [j \in JobIds |-> [p \in AccountPlatforms |-> 0]]
    /\ faults = 0
    /\ updates = 0
    /\ leftPending = {}
    /\ processedCodes = [p \in AccountPlatforms |-> {}]
    /\ timers = {}
    /\ callbacks = [r \in Requests |-> NoCallback]
    /\ collection = << >>
    /\ batch = << >>
    /\ immediate = NoResponse
    /\ video = NoVideo
    /\ disconnects = [d \in Disconnects |-> NoDisconnect]

(***************************************************************************)
(* Inputs of the two publishing paths: a job for Facebook and Pinterest    *)
(* whose media URL only contains the word 'video', and an image job for    *)
(* Pinterest and a platform without connected accounts.  The other post    *)
(* of the store was published earlier.  PINTEREST_BOARD_ID may be unset.   *)
(***************************************************************************)
PathsPostInputs ==
    { [user |-> "u1", platforms |-> << "facebook", "pinterest" >>,
       mediaUrl |-> {"video"}, scheduledDate |-> 1, status |-> "scheduled"],
      [user |-> "u1", platforms |-> << "twitter", "pinterest" >>,
       mediaUrl |-> {}, scheduledDate |-> 1, status |-> "scheduled"] }

PathsStoreInputs ==
    { [j \in JobIds |-> IF j = 1 THEN p ELSE [OrdinaryPost EXCEPT !.status = "published"]] :
         p \in PathsPostInputs }

PathsInit ==
    /\ now = 1
    /\ posts \in PathsStoreInputs
    /\ users \in [UserIds -> UserDocs]
    /\ boardId \in BOOLEAN
    /\ run = [t \in Ticks |-> IdleRun]
    /\ publishCalls = [j \in JobIds |-> [p \in AccountPlatforms |-> 0]]
    /\ faults = 0
    /\ updates = 0
    /\ leftPending = {}
    /\ processedCodes = [p \in AccountPlatforms |-> {}]
    /\ timers = {}
    /\ callbacks = [r \in Requests |-> NoCallback]
    /\ collection = << >>
    /\ batch = << >>
    /\ immediate = NoResponse
    /\ video = NoVideo
    /\ disconnects = [d \in Disconnects |-> NoDisconnect]

(***************************************************************************)
(* Helpers of processScheduledPost.                                        *)
(***************************************************************************)

\* String.prototype.toLowerCase on the platform names that can occur
toLowerCase(name) ==
    CASE name = "Facebook"  -> "facebook"
      [] name = "Instagram" -> "instagram"
      [] name = "Pinterest" -> "pinterest"
      [] OTHER              -> name

\* User.findById(id)
findById(id) == IF id \in DOMAIN users THEN users[id] ELSE NoUser

\* mutant: the first active account, whatever its platform
findFirstActive(connectedAccounts, platformName) ==
    LET hits == { i \in 1..Len(connectedAccounts) : connectedAccounts[i].isActive }
    IN  IF hits = {} THEN NoAccount
        ELSE connectedAccounts[CHOOSE i \in hits : \A h \in hits : i <= h]

\* user.connectedAccounts.find(acc => ... && acc.isActive): the first match
find(connectedAccounts, platformName) ==
    LET hits == { i \in 1..Len(connectedAccounts) :
                    /\ toLowerCase(connectedAccounts[i].platform) = toLowerCase(platformName)
                    /\ connectedAccounts[i].isActive }
    IN  IF hits = {} THEN NoAccount
        ELSE connectedAccounts[CHOOSE i \in hits : \A h \in hits : i <= h]

\* const platforms = post.platforms || [post.platform]; a mongoose array is
\* never undefined, so the right-hand side is never taken
platforms(post) == post.platforms

\* mutant: the job counts as published only when several platforms succeeded
TerminalStatusSeveral(results) == IF Len(results) > 1 THEN "published" ELSE "failed"

\* results.length > 0 ? 'published' : 'failed'
TerminalStatus(results) == IF Len(results) > 0 THEN "published" ELSE "failed"

\* the pc values at which a run is suspended in a platform service call
ServiceOps == {"getUserPages", "postToPage", "publishVideo", "publishPhoto", "createPin"}
PublishOps == {"postToPage", "publishVideo", "publishPhoto", "createPin"}

RECURSIVE RunPlatforms(_)

\* mutant: without the inner try/catch a platform's failure reaches the
\* catch block of processScheduledPost and ends the pass
PlatformFailedFast(s, message) ==
    [s EXCEPT !.errors = Append(@, [platform |-> platforms(s.post)[s.k],
                                    error |-> message]),
              !.error = "platform", !.post.status = "failed", !.pc = "catchSave"]

\* errors.push({platform, error}); continue with the next platform
PlatformFailed(s, message) ==
    RunPlatforms([s EXCEPT !.k = @ + 1,
                           !.errors = Append(@, [platform |-> platforms(s.post)[s.k],
                                                 error |-> message])])

\* results.push({platform, success: true, ...postResult}); next platform
PlatformSucceeded(s) ==
    RunPlatforms([s EXCEPT !.k = @ + 1,
                           !.results = Append(@, [platform |-> platforms(s.post)[s.k],
                                                  success |-> TRUE])])

(***************************************************************************)
(* The for loop over platforms, run from platform number s.k up to the     *)
(* next await: either a service call (pc names the operation awaited) or,  *)
(* after the last platform, post.save() with the terminal status set.      *)
(***************************************************************************)
RunPlatforms(s) ==
    IF s.k > Len(platforms(s.post))
    THEN [s EXCEPT !.post.status = TerminalStatus(s.results), !.pc = "save"]
    ELSE
      LET platformName     == platforms(s.post)[s.k]
          connectedAccount == find(s.user.connectedAccounts, platformName)
          mediaUrl         == mediaUrl0(s.post)
      IN  IF platformName = "all" THEN RunPlatforms([s EXCEPT !.k = @ + 1])
          ELSE IF connectedAccount = NoAccount
          THEN PlatformFailed(s, "Account not connected or inactive")
          ELSE
            CASE toLowerCase(platformName) = "facebook" ->
                   [s EXCEPT !.pc = "getUserPages"]
              [] toLowerCase(platformName) = "instagram" ->
                   IF connectedAccount.businessAccountId
                   THEN [s EXCEPT !.pc = IF isVideo(mediaUrl) THEN "publishVideo"
                                                              ELSE "publishPhoto"]
                   ELSE PlatformFailed(s, "Instagram Business account not linked")
              [] toLowerCase(platformName) = "pinterest" ->
                   IF isVideoForPinterest(mediaUrl)
                   THEN PlatformFailed(s, "Pinterest only supports image pins")
                   ELSE IF ~boardId
                   THEN PlatformFailed(s, "PINTEREST_BOARD_ID not configured")
                   ELSE [s EXCEPT !.pc = "createPin"]
              [] OTHER -> PlatformSucceeded(s)     \* the switch has no default

\* entry of processScheduledPost(post): suspended in User.findById
processScheduledPost(s, post) ==
    [s EXCEPT !.pc = "findUser", !.post = post, !.user = NoUser, !.k = 0,
              !.results = << >>, !.errors = << >>, !.error = "none",
              !.published = {}, !.expired = FALSE]

\* processScheduledPost returned: the for loop of checkScheduledPosts goes on
NextPost(s) ==
    IF s.scheduledPosts = << >> THEN IdleRun
    ELSE processScheduledPost([s EXCEPT !.scheduledPosts = Tail(@)],
                              Head(s.scheduledPosts))

(***************************************************************************)
(* Observers.                                                              *)
(***************************************************************************)
Min(a, b) == IF a < b THEN a ELSE b

\* run t goes on in state s; when s is suspended in a service operation,
\* that operation has just been invoked with the connected account's token
\* (expired: the token was past its expiresAt at that moment)
Resume(t, s) ==
    /\ run' = [run EXCEPT ![t] =
                 [s EXCEPT !.expired =
                    /\ s.pc \in ServiceOps
                    /\ find(s.user.connectedAccounts,
                            platforms(s.post)[s.k]).expiresAt < now]]
    /\ publishCalls' =
          IF s.pc \in PublishOps
          THEN [publishCalls EXCEPT
                   ![s.post.id][toLowerCase(platforms(s.post)[s.k])] = Min(@ + 1, MaxCalls)]
          ELSE publishCalls

(***************************************************************************)
(* checkScheduledPosts: Post.find({status: 'scheduled', scheduledDate:     *)
(* {$lte: now}}).limit(10) returns documents (snapshots of the store); the *)
(* query has no sort, so the order of the batch is the store's choice.     *)
(***************************************************************************)
\* the filter {status: 'scheduled', scheduledDate: {$lte: now}}
Matches(doc, time) == /\ doc.status = "scheduled"
                      /\ doc.scheduledDate <= time

Matching == { j \in JobIds : Matches(posts[j], now) }

Document(j) ==
    [id |-> j, user |-> posts[j].user, platforms |-> posts[j].platforms,
     mediaUrl |-> posts[j].mediaUrl, scheduledDate |-> posts[j].scheduledDate,
     status |-> posts[j].status]

QueryResults ==
    LET n == Min(BatchLimit, Cardinality(Matching))
    IN  { q \in [1..n -> Matching] : \A a, b \in 1..n : a # b => q[a] # q[b] }

\* mutant: without the try/catch of checkScheduledPosts the rejection of
\* Post.find rejects the promise nobody awaits: 'unhandledRejection',
\* process.exit(1) (server.js)
QueryFailedUnhandled(s) == [IdleRun EXCEPT !.error = "find", !.pc = "exit"]

\* Post.find rejected: catch, console.error('Error checking scheduled
\* posts'), and checkScheduledPosts returns
QueryFailed(s) == [IdleRun EXCEPT !.error = "find"]

\* the process has not exited
Alive == \A t \in Ticks : run[t].pc # "exit"

\* mutant: the cron callback awaits checkScheduledPosts and ticks queue up
\* behind a run in progress
TickReadyAwaited(t) == \A u \in Ticks : run[u].pc = "idle"

\* cron.schedule('* * * * *', () => { checkScheduledPosts(); }): the tick
\* starts a run of its own, whatever earlier runs are doing
TickReady(t) == run[t].pc = "idle"

CheckScheduledPosts(t) ==
    /\ Alive
    /\ TickReady(t)
    /\ \/ /\ Matching # {}
          /\ \E q \in QueryResults :
                LET scheduledPosts == [i \in DOMAIN q |-> Document(q[i])]
                IN  run' = [run EXCEPT ![t] =
                         NextPost([IdleRun EXCEPT !.scheduledPosts = scheduledPosts])]
          /\ UNCHANGED faults
       \/ \* the query rejects (store unavailable)
          /\ faults < MaxFaults
          /\ faults' = faults + 1
          /\ run' = [run EXCEPT ![t] = QueryFailed(run[t])]
    /\ UNCHANGED <<now, posts, users, boardId, updates, publishCalls, leftPending>>
    /\ UNCHANGED <<oauthVars, selectorVars, requestVars>>

(***************************************************************************)
(* processScheduledPost, resumed after each await.                         *)
(***************************************************************************)

\* const user = await User.findById(post.user)
FindUserReturn(t) ==
    LET s == run[t] IN
    /\ Alive
    /\ s.pc = "findUser"
    /\ \/ \* the query rejects: outer catch, post.status = 'failed', save
          /\ faults < MaxFaults
          /\ faults' = faults + 1
          /\ run' = [run EXCEPT ![t] = [s EXCEPT !.error = "findById",
                                                 !.post.status = "failed",
                                                 !.pc = "catchSave"]]
          /\ UNCHANGED publishCalls
       \/ /\ LET user == findById(s.post.user)
             IN  IF user = NoUser
                 THEN /\ run' = [run EXCEPT ![t] = NextPost(s)]      \* return
                      /\ UNCHANGED publishCalls
                 ELSE \E next \in { RunPlatforms([s EXCEPT !.user = user, !.k = 1]) } :
                         Resume(t, next)
          /\ UNCHANGED faults
    /\ UNCHANGED <<now, posts, users, boardId, updates, leftPending>>
    /\ UNCHANGED <<oauthVars, selectorVars, requestVars>>

\* const userPages = await facebookService.getUserPages(accessToken)
GetUserPagesReturn(t) ==
    LET s == run[t] IN
    /\ Alive
    /\ s.pc = "getUserPages"
    /\ \E next \in { [s EXCEPT !.pc = "postToPage"],          \* some page
                     PlatformFailed(s, "No Facebook pages available"),
                     PlatformFailed(s, "Failed to fetch Facebook pages") } :
          Resume(t, next)
    /\ UNCHANGED <<now, posts, users, boardId, faults, updates, leftPending>>
    /\ UNCHANGED <<oauthVars, selectorVars, requestVars>>

\* postResult = await postToPage / publishVideo / publishPhoto / createPin
PublishReturn(t) ==
    LET s == run[t] IN
    /\ Alive
    /\ s.pc \in PublishOps
    /\ \E next \in { PlatformSucceeded([s EXCEPT !.published = @ \cup {s.k}]),
                     PlatformFailed(s, "Failed to publish") } : Resume(t, next)
    /\ UNCHANGED <<now, posts, users, boardId, faults, updates, leftPending>>
    /\ UNCHANGED <<oauthVars, selectorVars, requestVars>>

\* mutant: the save also moves the job's date to the time of the write
saveRescheduling(doc) ==
    [posts EXCEPT ![doc.id].status = doc.status, ![doc.id].scheduledDate = now]

\* post.save() of a document whose only modified path is status: the store
\* sets that path of the stored post and no other
save(doc) == [posts EXCEPT ![doc.id].status = doc.status]

\* await post.save() at line 152: mongoose writes the modified path, status
SaveReturn(t) ==
    LET s == run[t] IN
    /\ Alive
    /\ s.pc = "save"
    /\ \/ /\ posts' = save(s.post)
          /\ leftPending' = leftPending \cup {s.post.id}
          /\ run' = [run EXCEPT ![t] = NextPost(s)]
          /\ UNCHANGED faults
       \/ \* the write rejects: outer catch, post.status = 'failed', save
          /\ faults < MaxFaults
          /\ faults' = faults + 1
          /\ run' = [run EXCEPT ![t] = [s EXCEPT !.error = "save",
                                                 !.post.status = "failed",
                                                 !.pc = "catchSave"]]
          /\ UNCHANGED <<posts, leftPending>>
    /\ UNCHANGED <<now, users, boardId, updates, publishCalls>>
    /\ UNCHANGED <<oauthVars, selectorVars, requestVars>>

\* await post.save() at line 160, inside the catch block
CatchSaveReturn(t) ==
    LET s == run[t] IN
    /\ Alive
    /\ s.pc = "catchSave"
    /\ \/ /\ posts' = save(s.post)
          /\ leftPending' = leftPending \cup {s.post.id}
          /\ run' = [run EXCEPT ![t] = NextPost(s)]
          /\ UNCHANGED faults
       \/ \* rejects too (the store is still unavailable, no new outage):
          \* processScheduledPost rejects, the catch of checkScheduledPosts
          \* logs it and the run is over, the rest of its batch dropped
          /\ run' = [run EXCEPT ![t] = IdleRun]
          /\ UNCHANGED <<posts, leftPending, faults>>
    /\ UNCHANGED <<now, users, boardId, updates, publishCalls>>
    /\ UNCHANGED <<oauthVars, selectorVars, requestVars>>

(***************************************************************************)
(* post.controller.js updatePost: the owner sets allowed fields of a post. *)
(***************************************************************************)
UpdateBodies == [status : PostStatuses]

\* Post.findOne, assignment of the allowed keys of req.body, post.save():
\* mongoose writes the paths whose value changed
UpdatePost(j, body) ==
    /\ Alive
    /\ updates < MaxUpdates
    /\ updates' = updates + 1
    /\ posts' = [posts EXCEPT ![j] =
                    [f \in DOMAIN posts[j] |->
                        IF f \in DOMAIN body THEN body[f] ELSE posts[j][f]]]
    /\ posts' # posts
    /\ leftPending' = IF posts'[j].status # "scheduled" THEN leftPending \cup {j}
                                                         ELSE leftPending
    /\ UNCHANGED <<now, users, boardId, run, faults, publishCalls>>
    /\ UNCHANGED oauthVars
    /\ UNCHANGED <<selectorVars, requestVars>>

\* time passes; a timer that is due fires before the clock moves on
AdvanceTime ==
    /\ now < MaxTime
    /\ \A tm \in timers : tm.due > now
    /\ now' = now + 1
    /\ UNCHANGED <<posts, users, boardId, run, faults, updates, publishCalls, leftPending>>
    /\ UNCHANGED <<oauthVars, selectorVars, requestVars>>

Scheduler ==
    \E t \in Ticks :
        \/ CheckScheduledPosts(t)
        \/ FindUserReturn(t)
        \/ GetUserPagesReturn(t)
        \/ PublishReturn(t)
        \/ SaveReturn(t)
        \/ CatchSaveReturn(t)

Next ==
    \/ Scheduler
    \/ \E j \in JobIds : \E body \in UpdateBodies : UpdatePost(j, body)
    \/ AdvanceTime

Spec == Init /\ [][Next]_vars

\* the dispatcher on its own: cron ticks and the clock, no HTTP request
SchedulerNext ==
    \/ Scheduler
    \/ AdvanceTime

SchedulerSpec == Init /\ [][SchedulerNext]_vars

\* what the dispatcher can rely on: the store answers every operation and
\* the event loop resumes the run; a platform's HTTP call has no timeout
\* (axios default) and nothing forces it to return
StoreAnswers ==
    \A t \in Ticks : /\ WF_vars(FindUserReturn(t))
                     /\ WF_vars(SaveReturn(t))
                     /\ WF_vars(CatchSaveReturn(t))

FairSchedulerSpec == SchedulerSpec /\ StoreAnswers

\* the dispatcher over the stores of EdgeStoreInputs
EdgeSpec == EdgeInit /\ [][SchedulerNext]_vars

\* the operation run t awaits returns or throws (a run is suspended in at
\* most one operation at a time); the catch block of processScheduledPost
\* is entered only after a store operation rejected
AwaitReturns(t) ==
    \/ FindUserReturn(t)
    \/ GetUserPagesReturn(t)
    \/ PublishReturn(t)
    \/ SaveReturn(t)

\* every store operation and every platform call returns or throws
AllAnswer == \A t \in Ticks : WF_vars(AwaitReturns(t))

\* the dispatcher while the store accepts every operation
AcceptingNext ==
    \E t \in Ticks :
        \/ CheckScheduledPosts(t)
        \/ FindUserReturn(t)
        \/ GetUserPagesReturn(t)
        \/ PublishReturn(t)
        \/ SaveReturn(t)

\* the stores of EdgeStoreInputs after the last outage of the store: from
\* here on the store accepts every operation; the owner edits nothing
AcceptingInit ==
    /\ now = 1
    /\ posts \in EdgeStoreInputs
    /\ users \in [UserIds -> UserDocs]
    /\ boardId = TRUE
    /\ run = [t \in Ticks |-> IdleRun]
    /\ publishCalls = [j \in JobIds |-> [p \in AccountPlatforms |-> 0]]
    /\ faults = MaxFaults
    /\ updates = 0
    /\ leftPending = {}
    /\ processedCodes = [p \in AccountPlatforms |-> {}]
    /\ timers = {}
    /\ callbacks = [r \in Requests |-> NoCallback]
    /\ collection = << >>
    /\ batch = << >>
    /\ immediate = NoResponse
    /\ video = NoVideo
    /\ disconnects = [d \in Disconnects |-> NoDisconnect]

AcceptingSpec ==
    AcceptingInit /\ [][AcceptingNext]_vars /\ AllAnswer

(***************************************************************************)
(* post.controller.js publishToSocialMedia, immediate path: the handler    *)
(* from User.findById to the response, as one step.  The request names     *)
(* the platforms and at most one media URL; outcome[k] is what the         *)
(* platform's service does when the k-th platform is dispatched.           *)
(***************************************************************************)
ServiceOutcomes == {"ok", "no pages", "rejects"}

ImmediateBodies ==
    { [user |-> "u1", platforms |-> << "pinterest" >>, mediaUrl |-> {"video"}],
      [user |-> "u1", platforms |-> << "pinterest" >>, mediaUrl |-> {}],
      [user |-> "u1", platforms |-> << "facebook", "twitter" >>, mediaUrl |-> NoMedia],
      [user |-> "u1", platforms |-> << "instagram" >>, mediaUrl |-> {".mp4"}] }

RECURSIVE ImmediateLoop(_)

\* errors.push({platform, error}) and the next platform
ImmediateFailed(s, message) ==
    ImmediateLoop([s EXCEPT !.k = @ + 1,
                            !.errors = Append(@, [platform |-> s.body.platforms[s.k],
                                                  error |-> message])])

\* the publish call of the platform is made; it returns or throws
ImmediateCall(s, op) ==
    LET called == [s EXCEPT !.calls = Append(@, op)] IN
    IF s.outcome[s.k] = "ok"
    THEN ImmediateLoop([called EXCEPT
                          !.k = @ + 1,
                          !.results = Append(@, [platform |-> s.body.platforms[s.k],
                                                 success |-> TRUE])])
    ELSE ImmediateFailed(called, "Failed to publish")

\* for (const platformName of platforms) { ... } of the immediate path
ImmediateLoop(s) ==
    IF s.k > Len(s.body.platforms) THEN s
    ELSE
      LET platformName     == s.body.platforms[s.k]
          connectedAccount == find(s.user.connectedAccounts, platformName)
          mediaUrl         == s.body.mediaUrl
      IN  IF connectedAccount = NoAccount
          THEN ImmediateFailed(s, "Account not connected or inactive")
          ELSE
            CASE toLowerCase(platformName) = "facebook" ->
                   IF s.outcome[s.k] = "no pages"
                   THEN ImmediateFailed(s, "No Facebook pages available")
                   ELSE ImmediateCall(s, "postToPage")
              [] toLowerCase(platformName) = "instagram" ->
                   IF connectedAccount.businessAccountId
                   THEN ImmediateCall(s, IF isVideo(mediaUrl) THEN "publishVideo"
                                                              ELSE "publishPhoto")
                   ELSE ImmediateFailed(s, "Instagram Business account not linked")
              [] toLowerCase(platformName) = "pinterest" ->
                   IF isVideoForPinterest(mediaUrl)
                   THEN ImmediateFailed(s, "Pinterest only supports image pins")
                   ELSE IF ~boardId
                   THEN ImmediateFailed(s, "PINTEREST_BOARD_ID not configured")
                   ELSE ImmediateCall(s, "createPin")
              [] OTHER -> ImmediateFailed(s, "Unsupported platform")

\* publishToSocialMedia with a caption, platforms and no scheduledDate
PublishToSocialMedia(body, outcome) ==
    LET user == findById(body.user)
        s    == ImmediateLoop([body |-> body, user |-> user, outcome |-> outcome,
                               k |-> 1, results |-> << >>, errors |-> << >>,
                               calls |-> << >>])
    IN
    /\ Alive
    /\ immediate' =
         IF user = NoUser
         THEN [NoResponse EXCEPT !.code = 404, !.platforms = body.platforms,
                                 !.mediaUrl = body.mediaUrl]
         ELSE [ code      |-> IF Len(s.results) > 0 THEN 200 ELSE 400,
                platforms |-> body.platforms,
                mediaUrl  |-> body.mediaUrl,
                results   |-> s.results,
                errors    |-> s.errors,
                calls     |-> s.calls,
                status    |-> TerminalStatus(s.results) ]
    /\ UNCHANGED <<now, posts, users, boardId, run, faults, updates, publishCalls, leftPending>>
    /\ UNCHANGED <<oauthVars, selectorVars, video, disconnects>>

Immediate ==
    \E body \in ImmediateBodies :
        \E outcome \in [1..Len(body.platforms) -> ServiceOutcomes] :
            PublishToSocialMedia(body, outcome)

PathsNext == Scheduler \/ Immediate

PathsSpec == PathsInit /\ [][PathsNext]_vars

(***************************************************************************)
(* social.controller.js: the OAuth callbacks facebookCallback,             *)
(* instagramCallback and pinterestCallback (the same code up to the        *)
(* platform's name) and saveAccountToStorage.  Node runs the synchronous   *)
(* code of a handler up to its first await without interleaving.           *)
(***************************************************************************)

\* mutant: the duplicate check never finds the code
hasNever(codes, code) == FALSE

\* global.processedFacebookCodes && global.processedFacebookCodes.has(code)
has(codes, code) == code \in codes

\* mutant: the code is not tracked
addNothing(codes, code) == codes

\* global.processedFacebookCodes.add(code)
add(codes, code) == codes \cup {code}

\* mutant: the cleanup leaves the code in the set
deleteNothing(codes, code) == codes

\* global.processedFacebookCodes.delete(code)
delete(codes, code) == codes \ {code}

\* req.query of a callback: the authorization code (absent in one case) and
\* the user id carried by the decoded state
CallbackQueries == [code : Codes \cup {"undefined"}, userId : UserIds]

\* the callbacks received: two codes for Facebook, one of them also sent to
\* Pinterest, and a redirect without code
CallbackInputs ==
    { [platform |-> "facebook",  query |-> [code |-> "c1", userId |-> "u1"]],
      [platform |-> "facebook",  query |-> [code |-> "c2", userId |-> "u1"]],
      [platform |-> "pinterest", query |-> [code |-> "c1", userId |-> "u1"]],
      [platform |-> "instagram", query |-> [code |-> "undefined", userId |-> "u1"]] }

\* the handler returned or threw: the response has been sent
Responded(c, response) == [c EXCEPT !.pc = "done", !.response = response]

\* GET /api/social/<platform>/callback, up to `await completeOAuthFlow(code)`
Callback(r, platform, query) ==
    /\ Alive
    /\ callbacks[r].pc = "none"
    /\ \A q \in Requests : q < r => callbacks[q].pc # "none"   \* numbered as received
    /\ query \in CallbackQueries
    /\ LET c == [NoCallback EXCEPT !.platform = platform, !.code = query.code,
                                   !.userId = query.userId, !.arrived = now]
       IN  IF query.code = "undefined"
           THEN /\ callbacks' = [callbacks EXCEPT ![r] = Responded(c, "400")]
                /\ UNCHANGED <<processedCodes, timers>>
           ELSE IF has(processedCodes[platform], query.code)
           THEN /\ callbacks' = [callbacks EXCEPT
                                    ![r] = Responded(c, "Already connected")]
                /\ UNCHANGED <<processedCodes, timers>>
           ELSE /\ processedCodes' = [processedCodes EXCEPT
                                        ![platform] = add(@, query.code)]
                /\ timers' = timers \cup {[platform |-> platform, code |-> query.code,
                                            due |-> now + Retention]}
                /\ callbacks' = [callbacks EXCEPT
                                    ![r] = [c EXCEPT !.pc = "completeOAuthFlow"]]
    /\ UNCHANGED <<now, posts, users, boardId, run, faults, updates, publishCalls, leftPending>>
    /\ UNCHANGED <<selectorVars, requestVars>>

\* the setTimeout callback: delete the code from the platform's set
TimerFires(tm) ==
    /\ Alive
    /\ tm \in timers
    /\ tm.due <= now
    /\ timers' = timers \ {tm}
    /\ processedCodes' = [processedCodes EXCEPT ![tm.platform] = delete(@, tm.code)]
    /\ UNCHANGED callbacks
    /\ UNCHANGED <<now, posts, users, boardId, run, faults, updates, publishCalls, leftPending>>
    /\ UNCHANGED <<selectorVars, requestVars>>

\* accountData = await <platform>Service.completeOAuthFlow(code)
CompleteOAuthFlowReturn(r) ==
    /\ Alive
    /\ callbacks[r].pc = "completeOAuthFlow"
    /\ \/ callbacks' = [callbacks EXCEPT ![r].pc = "findById"]
       \/ callbacks' = [callbacks EXCEPT ![r] = Responded(@, "500")]   \* threw
    /\ UNCHANGED <<processedCodes, timers>>
    /\ UNCHANGED <<now, posts, users, boardId, run, faults, updates, publishCalls, leftPending>>
    /\ UNCHANGED <<selectorVars, requestVars>>

\* user = await User.findById(userId), then saveAccountToStorage is called
\* and is suspended in its own User.findById
CallbackFindByIdReturn(r) ==
    /\ Alive
    /\ callbacks[r].pc = "findById"
    /\ callbacks' = [callbacks EXCEPT ![r].pc = "saveAccountToStorage"]
    /\ UNCHANGED <<processedCodes, timers>>
    /\ UNCHANGED <<now, posts, users, boardId, run, faults, updates, publishCalls, leftPending>>
    /\ UNCHANGED <<selectorVars, requestVars>>

\* the connectedAccounts entry pushed by saveAccountToStorage
accountData(platform) == Account(platform, MaxClock + 1, platform = "instagram")

\* user.connectedAccounts.filter(acc => acc.platform !== platform)
filter(connectedAccounts, platform) ==
    SelectSeq(connectedAccounts, LAMBDA acc : acc.platform # platform)

\* saveAccountToStorage: `const user = await User.findById(userId)` returns
\* a document; the existing entry of the platform is filtered out, the new
\* one pushed and user.save() awaited
SaveAccountFindReturn(r) ==
    /\ Alive
    /\ callbacks[r].pc = "saveAccountToStorage"
    /\ LET c    == callbacks[r]
           user == findById(c.userId)
       IN  IF user = NoUser
           THEN callbacks' = [callbacks EXCEPT ![r] = Responded(c, "500")]
           ELSE callbacks' = [callbacks EXCEPT
                   ![r] = [c EXCEPT
                      !.pc = "user.save",
                      !.user = [user EXCEPT !.connectedAccounts =
                                   Append(filter(@, c.platform),
                                          accountData(c.platform))]]]
    /\ UNCHANGED <<processedCodes, timers>>
    /\ UNCHANGED <<now, posts, users, boardId, run, faults, updates, publishCalls, leftPending>>
    /\ UNCHANGED <<selectorVars, requestVars>>

\* mutant: the update carries no version condition
versionMatchesAlways(stored, doc) == TRUE

\* a save that sets the connectedAccounts array is sent as an update with
\* the condition {_id, __v: <version of the document when it was read>}
versionMatches(stored, doc) == stored.version = doc.version

\* await user.save() in saveAccountToStorage: the array is written and __v
\* incremented, and the handler answers with the success page; or no
\* document matches the condition, save() throws VersionError and the
\* catch block of the callback answers 500
UserSaveReturn(r) ==
    LET c == callbacks[r] IN
    /\ Alive
    /\ c.pc = "user.save"
    /\ IF versionMatches(users[c.userId], c.user)
       THEN /\ users' = [users EXCEPT ![c.userId] = [c.user EXCEPT !.version = @ + 1]]
            /\ callbacks' = [callbacks EXCEPT ![r] = Responded(c, "200")]
       ELSE /\ callbacks' = [callbacks EXCEPT ![r] = Responded(c, "500")]
            /\ UNCHANGED users
    /\ UNCHANGED <<processedCodes, timers>>
    /\ UNCHANGED <<now, posts, boardId, run, faults, updates, publishCalls, leftPending>>
    /\ UNCHANGED <<selectorVars, requestVars>>

\* a minute passes while callbacks are served: as AdvanceTime, over the
\* longer range of the clock that the retention window needs
ClockTick ==
    /\ now < MaxClock
    /\ \A tm \in timers : tm.due > now
    /\ now' = now + 1
    /\ UNCHANGED <<posts, users, boardId, run, faults, updates, publishCalls, leftPending>>
    /\ UNCHANGED <<processedCodes, timers, callbacks, selectorVars, requestVars>>

OAuth ==
    \/ \E r \in Requests : \E in \in CallbackInputs :
          Callback(r, in.platform, in.query)
    \/ \E r \in Requests :
          \/ CompleteOAuthFlowReturn(r)
          \/ CallbackFindByIdReturn(r)
          \/ SaveAccountFindReturn(r)
          \/ UserSaveReturn(r)
    \/ \E tm \in timers : TimerFires(tm)

OAuthNext ==
    \/ OAuth
    \/ ClockTick

\* the callbacks on their own, over one job store
OAuthInit == Init /\ posts = CHOOSE f \in StoreInputs : TRUE

OAuthSpec == OAuthInit /\ [][OAuthNext]_vars

(***************************************************************************)
(* social.controller.js disconnectFacebook / disconnectInstagram /         *)
(* disconnectPinterest: DELETE /api/social/<platform>/disconnect of the    *)
(* authenticated user.                                                     *)
(***************************************************************************)

\* the request is received: the handler awaits User.findById(req.user._id)
Disconnect(d, platform) ==
    /\ Alive
    /\ disconnects[d].pc = "none"
    /\ disconnects' = [disconnects EXCEPT
                          ![d] = [NoDisconnect EXCEPT !.pc = "findById",
                                                      !.platform = platform]]
    /\ UNCHANGED <<now, posts, users, boardId, run, faults, updates, publishCalls, leftPending>>
    /\ UNCHANGED <<oauthVars, selectorVars, immediate, video>>

\* findById returns; the platform's entries are filtered out of the
\* document and user.save() is awaited.  An assignment that leaves the
\* array as it was may or may not mark the path modified.
DisconnectFindReturn(d) ==
    LET c    == disconnects[d]
        user == findById("u1")
    IN
    /\ Alive
    /\ c.pc = "findById"
    /\ IF user = NoUser
       THEN disconnects' = [disconnects EXCEPT
                              ![d] = [c EXCEPT !.pc = "done", !.response = "404"]]
       ELSE \E modified \in BOOLEAN :
               /\ filter(user.connectedAccounts, c.platform) # user.connectedAccounts
                     => modified
               /\ disconnects' = [disconnects EXCEPT
                     ![d] = [c EXCEPT
                        !.pc = "user.save",
                        !.modified = modified,
                        !.user = [user EXCEPT !.connectedAccounts =
                                     filter(@, c.platform)]]]
    /\ UNCHANGED <<now, posts, users, boardId, run, faults, updates, publishCalls, leftPending>>
    /\ UNCHANGED <<oauthVars, selectorVars, immediate, video>>

\* await user.save() of the disconnect handler, then the response
DisconnectSaveReturn(d) ==
    LET c == disconnects[d] IN
    /\ Alive
    /\ c.pc = "user.save"
    /\ IF ~c.modified
       THEN /\ disconnects' = [disconnects EXCEPT
                                 ![d] = [c EXCEPT !.pc = "done", !.response = "200"]]
            /\ UNCHANGED users
       ELSE IF versionMatches(users["u1"], c.user)
       THEN /\ users' = [users EXCEPT !["u1"] = [c.user EXCEPT !.version = @ + 1]]
            /\ disconnects' = [disconnects EXCEPT
                                 ![d] = [c EXCEPT !.pc = "done", !.response = "200"]]
       ELSE /\ disconnects' = [disconnects EXCEPT
                                 ![d] = [c EXCEPT !.pc = "done", !.response = "500"]]
            /\ UNCHANGED users
    /\ UNCHANGED <<now, posts, boardId, run, faults, updates, publishCalls, leftPending>>
    /\ UNCHANGED <<oauthVars, selectorVars, immediate, video>>

\* links and disconnects of one user, within one retention window
AccountNext ==
    \/ \E r \in Requests : \E in \in CallbackInputs :
          Callback(r, in.platform, in.query)
    \/ \E r \in Requests :
          \/ CompleteOAuthFlowReturn(r)
          \/ CallbackFindByIdReturn(r)
          \/ SaveAccountFindReturn(r)
          \/ UserSaveReturn(r)
    \/ \E d \in Disconnects :
          \/ \E platform \in AccountPlatforms : Disconnect(d, platform)
          \/ DisconnectFindReturn(d)
          \/ DisconnectSaveReturn(d)

AccountSpec == OAuthInit /\ [][AccountNext]_vars

(***************************************************************************)
(* The selector of checkScheduledPosts as a function of the collection:    *)
(* Post.find(filter).limit(10).  The query states no sort, so the order of *)
(* the result is that of the plan MongoDB executes: a collection scan      *)
(* yields the matching documents in natural order, a scan of the index     *)
(* {status: 1, scheduledDate: 1} (Post.model.js) in ascending              *)
(* scheduledDate.  The batch is the first 10 documents of that order.      *)
(***************************************************************************)
Plans == {"COLLSCAN", "IXSCAN"}

\* the key by which `plan` orders a document (a collection scan: none)
OrderKey(doc, plan) == IF plan = "IXSCAN" THEN doc.scheduledDate ELSE 0

\* document i stands before document j in the order of `plan` (documents
\* with equal keys in natural order)
Before(coll, i, j, plan) ==
    \/ OrderKey(coll[i], plan) < OrderKey(coll[j], plan)
    \/ (OrderKey(coll[i], plan) = OrderKey(coll[j], plan) /\ i < j)

\* the positions S of documents of coll as a sequence in the order of `plan`
Ordered(coll, S, plan) ==
    [k \in 1..Cardinality(S) |->
        CHOOSE i \in S :
           Cardinality({ j \in S : Before(coll, j, i, plan) }) = k - 1]

\* mutant: the query without .limit(10)
limitNone(seq, n) == seq

\* .limit(n)
limit(seq, n) == SubSeq(seq, 1, Min(n, Len(seq)))

\* the documents returned by the query at `time` under `plan`
Find(coll, time, plan) ==
    LET hits  == { i \in DOMAIN coll : Matches(coll[i], time) }
        order == Ordered(coll, hits, plan)
    IN  limit([k \in DOMAIN order |->
                  [id |-> order[k], status |-> coll[order[k]].status,
                   scheduledDate |-> coll[order[k]].scheduledDate]],
              BatchLimit)

\* the documents created: scheduled for any time of the clock, or a draft
CreateBodies ==
    [status : {"scheduled"}, scheduledDate : Times]
        \cup { [status |-> "draft", scheduledDate |-> 1] }

\* post.controller.js createPost: Post.create({...req.body, user})
CreatePost(body) ==
    /\ Len(collection) < MaxPosts
    /\ ~Matches(body, 1) =>
          Cardinality({ i \in DOMAIN collection : ~Matches(collection[i], 1) })
              < MaxOthers
    /\ collection' = Append(collection, body)
    /\ UNCHANGED batch
    /\ UNCHANGED <<now, posts, users, boardId, run, faults, updates, publishCalls, leftPending>>
    /\ UNCHANGED <<oauthVars, requestVars>>

\* const scheduledPosts = await Post.find({...}).limit(10)
Select ==
    /\ \E plan \in Plans : batch' = Find(collection, now, plan)
    /\ UNCHANGED collection
    /\ UNCHANGED <<now, posts, users, boardId, run, faults, updates, publishCalls, leftPending>>
    /\ UNCHANGED <<oauthVars, requestVars>>

SelectorNext ==
    \/ \E body \in CreateBodies : CreatePost(body)
    \/ Select
    \/ AdvanceTime

SelectorSpec == OAuthInit /\ [][SelectorNext]_vars

(***************************************************************************)
(* The selector and the passes over its batch, for a collection of NumDue  *)
(* due posts of which the first created ones have lost their owner         *)
(* document.  One run at a time: a tick queries when the batch of the run  *)
(* before is processed.                                                    *)
(***************************************************************************)
NumDue == 11

\* how many of the posts have no owner document
Ownerless == {8, 9, 10, 11}

StarvationInit ==
    /\ now = 1
    /\ posts = CHOOSE f \in StoreInputs : TRUE
    /\ users \in [UserIds -> UserDocs]
    /\ boardId = TRUE
    /\ run = [t \in Ticks |-> IdleRun]
    /\ publishCalls = [j \in JobIds |-> [p \in AccountPlatforms |-> 0]]
    /\ faults = 0
    /\ updates = 0
    /\ leftPending = {}
    /\ processedCodes = [p \in AccountPlatforms |-> {}]
    /\ timers = {}
    /\ callbacks = [r \in Requests |-> NoCallback]
    /\ \E n \in Ownerless :
          collection = [i \in 1..NumDue |->
                          [status |-> "scheduled", scheduledDate |-> 1,
                           user |-> IF i <= n THEN "u0" ELSE "u1"]]
    /\ batch = << >>
    /\ immediate = NoResponse
    /\ video = NoVideo
    /\ disconnects = [d \in Disconnects |-> NoDisconnect]

\* a cron tick while no run is in progress: checkScheduledPosts queries
Tick ==
    /\ batch = << >>
    /\ Select

\* processScheduledPost(post) for the next post of the batch, from entry
\* to return: without owner document it returns at once, otherwise it
\* saves the terminal status
ProcessPost ==
    /\ batch # << >>
    /\ LET post == Head(batch) IN
       IF findById(collection[post.id].user) = NoUser
       THEN UNCHANGED collection
       ELSE \E status \in TerminalStatuses :
               collection' = [collection EXCEPT ![post.id].status = status]
    /\ batch' = Tail(batch)
    /\ UNCHANGED <<now, posts, users, boardId, run, faults, updates, publishCalls, leftPending>>
    /\ UNCHANGED <<oauthVars, requestVars>>

StarvationNext == Tick \/ ProcessPost

\* weak fairness of cron ticks and of the passes
StarvationSpec ==
    StarvationInit /\ [][StarvationNext]_vars /\ WF_vars(Tick) /\ WF_vars(ProcessPost)

(***************************************************************************)
(* instagram.service.js publishVideo: create the container, poll its       *)
(* status_code every 5 seconds while it is IN_PROGRESS and fewer than      *)
(* maxAttempts polls were made, then publish the container.  Every error   *)
(* is caught at the end of the function and rethrown.                      *)
(***************************************************************************)
maxAttempts == 30

\* the status codes a container reports
StatusCodes == {"IN_PROGRESS", "FINISHED", "ERROR", "EXPIRED"}

\* while (status === 'IN_PROGRESS' && attempts < maxAttempts)
KeepsPolling(v) == v.status = "IN_PROGRESS" /\ v.attempts < maxAttempts

\* mutant: only a container still in progress is refused
NotFinishedInProgressOnly(status) == status = "IN_PROGRESS"

\* if (status !== 'FINISHED') throw
NotFinished(status) == status # "FINISHED"

\* after the loop condition turned false: throw, or post media_publish
AfterPolling(v) ==
    IF NotFinished(v.status) THEN [v EXCEPT !.pc = "thrown"]
    ELSE [v EXCEPT !.pc = "media_publish", !.mediaPublish = @ + 1]

\* publishVideo(igUserId, accessToken, content): posts the container
PublishVideo ==
    /\ Alive
    /\ video.pc \in {"none", "returned", "thrown"}
    /\ video' = [NoVideo EXCEPT !.pc = "media"]
    /\ UNCHANGED <<now, posts, users, boardId, run, faults, updates, publishCalls, leftPending>>
    /\ UNCHANGED <<oauthVars, selectorVars, immediate, disconnects>>

\* the container is created (status = 'IN_PROGRESS', attempts = 0 and the
\* first wait begins) or the request fails
CreateContainerReturn ==
    /\ video.pc = "media"
    /\ \/ video' = [video EXCEPT !.pc = "poll", !.status = "IN_PROGRESS"]
       \/ video' = [video EXCEPT !.pc = "thrown"]
    /\ UNCHANGED <<now, posts, users, boardId, run, faults, updates, publishCalls, leftPending>>
    /\ UNCHANGED <<oauthVars, selectorVars, immediate, disconnects>>

\* after the 5 seconds the status request returns a status_code or fails
PollReturn ==
    /\ video.pc = "poll"
    /\ \/ \E code \in StatusCodes :
             LET v == [video EXCEPT !.status = code, !.attempts = @ + 1]
             IN  video' = IF KeepsPolling(v) THEN v ELSE AfterPolling(v)
       \/ video' = [video EXCEPT !.attempts = @ + 1, !.pc = "thrown"]
    /\ UNCHANGED <<now, posts, users, boardId, run, faults, updates, publishCalls, leftPending>>
    /\ UNCHANGED <<oauthVars, selectorVars, immediate, disconnects>>

\* media_publish returns the media id or fails
MediaPublishReturn ==
    /\ video.pc = "media_publish"
    /\ \/ video' = [video EXCEPT !.pc = "returned"]
       \/ video' = [video EXCEPT !.pc = "thrown"]
    /\ UNCHANGED <<now, posts, users, boardId, run, faults, updates, publishCalls, leftPending>>
    /\ UNCHANGED <<oauthVars, selectorVars, immediate, disconnects>>

VideoNext ==
    \/ PublishVideo
    \/ CreateContainerReturn
    \/ PollReturn
    \/ MediaPublishReturn

\* every HTTP call returns
HttpReturns ==
    /\ WF_vars(CreateContainerReturn)
    /\ WF_vars(PollReturn)
    /\ WF_vars(MediaPublishReturn)

VideoSpec == OAuthInit /\ [][VideoNext]_vars /\ HttpReturns

TypeOK ==
    /\ now \in 1..MaxClock
    /\ \A r \in Requests : callbacks[r].pc \in
          {"none", "completeOAuthFlow", "findById", "saveAccountToStorage",
           "user.save", "done"}
    /\ \A j \in JobIds : posts[j].status \in PostStatuses
    /\ \A t \in Ticks : run[t].pc \in
          {"idle", "findUser", "save", "catchSave"} \cup ServiceOps

(***************************************************************************)
(* Vocabulary of the properties.                                           *)
(***************************************************************************)

\* the jobs run t holds: the one being processed and the rest of its batch
HeldBy(s) ==
    (IF s.post = NoPost THEN {} ELSE {s.post.id})
        \cup { s.scheduledPosts[i].id : i \in DOMAIN s.scheduledPosts }

Held(t) == HeldBy(run[t])

\* run t takes a step of its own / returns from the save of line 152
Steps(t)       == run'[t] # run[t]
SavedByLine152(t) == /\ run[t].pc = "save"
                     /\ run'[t].pc \in {"idle", "findUser"}

\* run t is done with the job it was processing (processScheduledPost
\* returned or rejected)
EndsJob(t) == /\ Steps(t)
              /\ run[t].pc # "idle"
              /\ run'[t].pc \in {"idle", "findUser"}

\* the per-platform results stored with job j: the Post schema has no such
\* path and save() writes only `status`
perPlatformResult(j) ==
    IF "perPlatformResult" \in DOMAIN posts[j] THEN posts[j].perPlatformResult
                                               ELSE << >>

\* every targeted platform of the pass has an entry in results or in errors
AllOutcomes(s) ==
    /\ Len(s.results) + Len(s.errors)
          = Cardinality({ i \in DOMAIN platforms(s.post) : platforms(s.post)[i] # "all" })
    /\ \A i \in DOMAIN platforms(s.post) :
          platforms(s.post)[i] # "all" =>
             \/ \E r \in DOMAIN s.results : s.results[r].platform = platforms(s.post)[i]
             \/ \E e \in DOMAIN s.errors : s.errors[e].platform = platforms(s.post)[i]

(***************************************************************************)
(* C1  At-most-once claim: a due job is held by at most one run of         *)
(* checkScheduledPosts at a time; a second run that queries while the      *)
(* first still holds the job does not get it in its batch.                 *)
(***************************************************************************)
C1_AtMostOnceClaim ==
    \A j \in JobIds : Cardinality({ t \in Ticks : j \in Held(t) }) <= 1

(***************************************************************************)
(* C2  No double-publishing: for every job and platform, the platform's    *)
(* publish operation is invoked at most once over all scheduler runs.      *)
(***************************************************************************)
C2_NoDoublePublish ==
    \A j \in JobIds : \A p \in AccountPlatforms : publishCalls[j][p] <= 1

(***************************************************************************)
(* C3  Terminal status rule: when a pass returns from post.save() of line  *)
(* 152, the stored status is 'published' iff the publish call of at least  *)
(* one targeted platform returned, and 'failed' iff none did.              *)
(***************************************************************************)
C3_TerminalStatusRule ==
    [][ \A t \in Ticks :
          SavedByLine152(t) =>
             LET j == run[t].post.id
             IN  /\ posts'[j].status \in TerminalStatuses
                 /\ posts'[j].status = "published" <=> run[t].published # {}
                 /\ posts'[j].status = "failed" <=>
                       \A i \in DOMAIN platforms(run[t].post) : i \notin run[t].published
      ]_vars

\* a job whose Facebook pass failed before any publish and whose Instagram
\* publish went out has been stored as published by the dispatcher;
\* another whose targets all lack an account has been stored as failed
C3_Witness ==
    /\ updates = 0
    /\ faults = 0
    /\ \E j \in JobIds :
          /\ posts[j].platforms = << "facebook", "instagram" >>
          /\ publishCalls[j]["facebook"] = 0
          /\ publishCalls[j]["instagram"] = 1
          /\ posts[j].status = "published"
    /\ \E j \in JobIds :
          /\ posts[j].platforms = << "twitter" >>
          /\ posts[j].status = "failed"

(***************************************************************************)
(* C4  Per-platform results are complete: when the dispatcher has written  *)
(* the terminal status of a job, the job holds one per-platform result     *)
(* entry for every targeted platform.                                      *)
(***************************************************************************)
C4_PerPlatformResultComplete ==
    \A j \in JobIds :
        (faults = 0 /\ updates = 0 /\ posts[j].status \in TerminalStatuses)
            => Len(perPlatformResult(j)) = Len(posts[j].platforms)

(***************************************************************************)
(* C5  No double due-processing: a job whose status has once been other    *)
(* than 'scheduled' is in the batch of no later query of                   *)
(* checkScheduledPosts.                                                    *)
(***************************************************************************)
C5_NoDoubleDueProcessing ==
    [][ \A t \in Ticks :
          (run[t].pc = "idle" /\ Steps(t)) => HeldBy(run'[t]) \cap leftPending = {}
      ]_vars

(***************************************************************************)
(* C6  Terminal states are absorbing for the dispatcher: with scheduler    *)
(* activity only, a status 'published' or 'failed' is never changed again. *)
(***************************************************************************)
C6_TerminalAbsorbing ==
    [][ \A j \in JobIds :
          posts[j].status \in TerminalStatuses => posts'[j].status = posts[j].status
      ]_vars

(***************************************************************************)
(* C7  Status is monotonic and owned by the dispatcher: no step moves a    *)
(* job that has left 'scheduled' back to 'scheduled', and every change of  *)
(* a job's status is the save of a run that is processing that job.        *)
(***************************************************************************)
C7_StatusMonotonic ==
    [][ \A j \in JobIds :
          /\ (posts[j].status # "scheduled" => posts'[j].status # "scheduled")
          /\ (posts'[j].status # posts[j].status =>
                 \E t \in Ticks : /\ run[t].pc \in {"save", "catchSave"}
                                  /\ run[t].post.id = j
                                  /\ Steps(t))
      ]_vars

(***************************************************************************)
(* C8  Unusable credential means no network call: no service operation is  *)
(* ever pending for a platform whose connected account was absent,         *)
(* inactive or past its expiresAt when the operation was invoked.          *)
(***************************************************************************)
C8_NoCallWithUnusableCredential ==
    \A t \in Ticks :
        run[t].pc \in ServiceOps =>
            LET connectedAccount ==
                    find(run[t].user.connectedAccounts, platforms(run[t].post)[run[t].k])
            IN  /\ connectedAccount # NoAccount
                /\ connectedAccount.isActive
                /\ ~run[t].expired

(***************************************************************************)
(* C9  No fail-fast across platforms: a platform's failure never takes the *)
(* pass to the catch block; whenever the terminal status has been computed *)
(* (the pass is at post.save(), or in the catch block because that save    *)
(* failed) every targeted platform has its own outcome.                    *)
(***************************************************************************)
C9_NoFailFast ==
    \A t \in Ticks :
        /\ run[t].pc = "save" => AllOutcomes(run[t])
        /\ run[t].pc = "catchSave" =>
              \/ run[t].error = "findById" /\ run[t].k = 0
              \/ run[t].error = "save" /\ AllOutcomes(run[t])
        /\ run[t].pc \in ServiceOps => run[t].error = "none"

\* a pass is at post.save() after its first platform failed and its second
\* platform was still published
C9_Witness ==
    \E t \in Ticks :
        /\ run[t].pc = "save"
        /\ Len(run[t].errors) = 1
        /\ Len(run[t].results) = 1
        /\ run[t].errors[1].platform = platforms(run[t].post)[1]
        /\ run[t].results[1].platform = platforms(run[t].post)[2]
        /\ run[t].published = {2}

(***************************************************************************)
(* C10  Store failure never produces a false terminal status: when the     *)
(* post.save() of line 152 has failed, the run's next step leaves the      *)
(* stored job as it is.                                                    *)
(***************************************************************************)
C10_StoreFailureKeepsStatus ==
    [][ \A t \in Ticks :
          (run[t].pc = "catchSave" /\ run[t].error = "save" /\ Steps(t)) =>
              posts'[run[t].post.id] = posts[run[t].post.id]
      ]_vars

(***************************************************************************)
(* C11  Job-level failure isolation: whatever happens to the job a run is  *)
(* processing, an exception included, while jobs of its batch remain the   *)
(* run goes on with the next of them.                                      *)
(***************************************************************************)
C11_JobFailureIsolated ==
    [][ \A t \in Ticks :
          (EndsJob(t) /\ run[t].scheduledPosts # << >>) =>
              /\ run'[t].pc = "findUser"
              /\ run'[t].post = Head(run[t].scheduledPosts)
      ]_vars

(***************************************************************************)
(* C12  Tick-level failure isolation: when the query of a tick rejects,    *)
(* checkScheduledPosts has logged the error and returned (the run is idle  *)
(* again, ready for the next tick) and the process never exits on an       *)
(* unhandled rejection.                                                    *)
(***************************************************************************)
C12_TickFailureIsolated ==
    [][ \A t \in Ticks :
          /\ run'[t].pc # "exit"
          /\ (run[t].pc = "idle" /\ Steps(t) /\ faults' # faults) =>
                 /\ run'[t].pc = "idle"
                 /\ run'[t].error = "find"
                 /\ posts' = posts
      ]_vars

\* the query of a tick has failed, its run is idle again, and the
\* dispatcher is at work on a job found by another query
C12_Witness ==
    /\ faults = 1
    /\ \E t \in Ticks : run[t].pc = "idle" /\ run[t].error = "find"
    /\ \E t \in Ticks : run[t].pc \in PublishOps

(***************************************************************************)
(* Vocabulary of the properties of the OAuth callbacks.                    *)
(***************************************************************************)

\* two callbacks carry the same authorization code for the same platform
SameKey(c, d) == /\ c.platform = d.platform
                 /\ c.code = d.code
                 /\ c.code \in Codes

\* the handler of c is suspended between the guard and its response
InFlight(c) == c.pc \in {"completeOAuthFlow", "findById", "saveAccountToStorage",
                         "user.save"}

\* c found its code unseen: it recorded the code and went on to the exchange
SawUnseen(c) == InFlight(c) \/ (c.pc = "done" /\ c.response \in {"200", "500"})

\* c was answered as a duplicate
SawSeen(c) == c.pc = "done" /\ c.response = "Already connected"

\* saveAccountToStorage has been called by the handler of c
Linked(c) == c.pc \in {"saveAccountToStorage", "user.save"}
                \/ (c.pc = "done" /\ c.response = "200")

\* request r is received in this step
Arrives(r) == callbacks[r].pc = "none" /\ callbacks'[r].pc # "none"

C14_GuardRetention ==
    [][ /\ \A r \in Requests :
             ( /\ Arrives(r)
               /\ \E q \in Requests \ {r} :
                     /\ SawUnseen(callbacks[q])
                     /\ SameKey(callbacks[q], callbacks'[r])
                     /\ now < callbacks[q].arrived + Retention )
             => SawSeen(callbacks'[r])
        /\ \A p \in AccountPlatforms : \A code \in processedCodes'[p] :
             \E q \in Requests :
                 /\ SawUnseen(callbacks'[q])
                 /\ callbacks'[q].platform = p
                 /\ callbacks'[q].code = code
                 /\ now' <= callbacks'[q].arrived + Retention
        /\ \A r \in Requests :
             ( /\ Arrives(r)
               /\ callbacks'[r].code \in Codes
               /\ \A q \in Requests \ {r} :
                     (SawUnseen(callbacks[q]) /\ SameKey(callbacks[q], callbacks'[r]))
                         => callbacks[q].arrived + Retention < now )
             => /\ callbacks'[r].pc = "completeOAuthFlow"
                /\ callbacks'[r].code \in processedCodes'[callbacks'[r].platform]
      ]_vars

\* a code was recorded, a second callback within the window was answered
\* as duplicate, and a third one after the window recorded the code again
C14_Witness ==
    \E q, r, u \in Requests :
        /\ SameKey(callbacks[q], callbacks[r])
        /\ SameKey(callbacks[q], callbacks[u])
        /\ SawUnseen(callbacks[q])
        /\ SawSeen(callbacks[r])
        /\ callbacks[q].arrived < callbacks[r].arrived
        /\ callbacks[r].arrived < callbacks[q].arrived + Retention
        /\ callbacks[u].arrived > callbacks[q].arrived + Retention
        /\ callbacks[u].pc = "completeOAuthFlow"
        /\ callbacks[u].code \in processedCodes[callbacks[u].platform]

(***************************************************************************)
(* C15  At-most-once account link per authorization code: of the callbacks *)
(* delivered with the same platform and code within one retention window,  *)
(* at most one calls saveAccountToStorage.                                 *)
(***************************************************************************)
C15_AtMostOneLink ==
    \A q, r \in Requests :
        ( /\ q # r
          /\ SameKey(callbacks[q], callbacks[r])
          /\ Linked(callbacks[q])
          /\ Linked(callbacks[r])
          /\ callbacks[q].arrived <= callbacks[r].arrived )
        => callbacks[r].arrived >= callbacks[q].arrived + Retention

\* the account of a code has been saved and two more deliveries of the
\* code within the window were answered as duplicates
C15_Witness ==
    \E q, r, u \in Requests :
        /\ r # u
        /\ SameKey(callbacks[q], callbacks[r])
        /\ SameKey(callbacks[q], callbacks[u])
        /\ callbacks[q].response = "200"
        /\ SawSeen(callbacks[r])
        /\ SawSeen(callbacks[u])
        /\ callbacks[u].arrived < callbacks[q].arrived + Retention
        /\ callbacks[r].arrived < callbacks[q].arrived + Retention

(***************************************************************************)
(* Vocabulary of the properties of the selector.                           *)
(***************************************************************************)

\* the documents of the collection that are due at the time of the query
Due == { i \in DOMAIN collection : Matches(collection[i], now) }

(***************************************************************************)
(* C16  Selector predicate and batch cap: every document returned by the   *)
(* query had status 'scheduled' and scheduledDate <= now in the collection *)
(* when the query ran, no document is returned twice, and the batch holds  *)
(* at most 10 documents however many are due.                              *)
(***************************************************************************)
C16_SelectorPredicateAndCap ==
    [][ batch' # batch =>
          /\ Len(batch') <= 10
          /\ Len(batch') = Min(10, Cardinality(Due))
          /\ \A k \in DOMAIN batch' :
                /\ batch'[k].id \in Due
                /\ collection[batch'[k].id].status = "scheduled"
                /\ collection[batch'[k].id].scheduledDate <= now
                /\ batch'[k].status = "scheduled"
                /\ batch'[k].scheduledDate <= now
          /\ \A k, l \in DOMAIN batch' : k # l => batch'[k].id # batch'[l].id
      ]_vars

\* eleven documents are due, the batch holds ten of them, and the query
\* passed over a document that is not due and stands before one returned
C16_Witness ==
    /\ Cardinality(Due) = 11
    /\ Len(batch) = 10
    /\ \A k \in DOMAIN batch : batch[k].id \in Due
    /\ \E i \in DOMAIN collection \ Due : \E k \in DOMAIN batch : i < batch[k].id

(***************************************************************************)
(* C17  Oldest due first: the batch is in ascending scheduledDate order,   *)
(* and when more documents are due than the limit, no due document left    *)
(* out of the batch has a smaller scheduledDate than one in it.            *)
(***************************************************************************)
C17_OldestDueFirst ==
    [][ batch' # batch =>
          /\ \A k, l \in DOMAIN batch' :
                k < l => batch'[k].scheduledDate <= batch'[l].scheduledDate
          /\ \A i \in Due : \A k \in DOMAIN batch' :
                (\A l \in DOMAIN batch' : batch'[l].id # i)
                    => collection[i].scheduledDate >= batch'[k].scheduledDate
      ]_vars

(***************************************************************************)
(* C18  Timeout outcome: a pass that waits for a platform's publish call   *)
(* eventually gets past that call, whether it returns or not, and reaches  *)
(* the computation of the job's terminal status.                           *)
(***************************************************************************)
C18_TimeoutOutcome ==
    \A t \in Ticks :
        (run[t].pc \in PublishOps) ~> (run[t].pc \in {"save", "catchSave", "idle"})

(***************************************************************************)
(* C19  Platform independence within a job: while a pass waits for the     *)
(* service call of one platform, no other targeted platform with a         *)
(* connected account is left with its call not yet started.                *)
(***************************************************************************)
C19_PlatformsIndependent ==
    \A t \in Ticks :
        run[t].pc \in ServiceOps =>
            \A i \in DOMAIN platforms(run[t].post) :
                i > run[t].k =>
                    find(run[t].user.connectedAccounts, platforms(run[t].post)[i])
                        = NoAccount

(***************************************************************************)
(* C20  Ticks are independent of job completion: whenever due jobs are in  *)
(* the store, a tick can run checkScheduledPosts, whatever the runs of     *)
(* earlier ticks are waiting for.                                          *)
(***************************************************************************)
C20_TicksIndependent ==
    \A t \in Ticks :
        (run[t].pc = "idle" /\ Matching # {}) => ENABLED CheckScheduledPosts(t)

\* one run waits for Instagram to publish its job while another run has
\* found a job that fell due later and has started on it
C20_Witness ==
    \E t, u \in Ticks :
        /\ run[t].pc \in {"publishVideo", "publishPhoto"}
        /\ run[u].pc = "findUser"
        /\ run[u].post.scheduledDate > run[t].post.scheduledDate

\* the elements of a sequence
Range(seq) == { seq[i] : i \in 1..Len(seq) }

\* the URL is one the Pinterest branch classifies as a video
VideoUrl(mediaUrl) ==
    /\ mediaUrl # NoMedia
    /\ mediaUrl \cap {".mp4", ".mov", ".avi", "video"} # {}

\* a failure of Pinterest media validation is recorded and no success
PinterestRefused(results, errors) ==
    /\ \E e \in Range(errors) :
          /\ e.platform = "pinterest"
          /\ e.error \in {"Pinterest only supports image pins",
                          "PINTEREST_BOARD_ID not configured"}
    /\ \A r \in Range(results) : r.platform # "pinterest"

(***************************************************************************)
(* C21  Unsupported media fails fast, on both publishing paths: for a job  *)
(* or request whose media URL contains '.mp4', '.mov', '.avi' or 'video',  *)
(* and for any job or request while no board id is configured, createPin   *)
(* is never called, and once the loop over the platforms is over a failure *)
(* is recorded for Pinterest if the job or request targets it.             *)
(***************************************************************************)
C21_UnsupportedMediaFailsFast ==
    /\ \A t \in Ticks :
          LET s == run[t] IN
          (s.post # NoPost /\ (VideoUrl(s.post.mediaUrl) \/ ~boardId)) =>
             /\ s.pc # "createPin"
             /\ publishCalls[s.post.id]["pinterest"] = 0
             /\ (s.pc = "save" /\ "pinterest" \in Range(platforms(s.post))) =>
                   PinterestRefused(s.results, s.errors)
    /\ (immediate.code \in {200, 400} /\ (VideoUrl(immediate.mediaUrl) \/ ~boardId)) =>
          /\ "createPin" \notin Range(immediate.calls)
          /\ "pinterest" \in Range(immediate.platforms) =>
                PinterestRefused(immediate.results, immediate.errors)

\* with a board configured, the pass of a Pinterest job whose URL only
\* contains the word 'video' is at post.save() with the failure recorded,
\* and such a request was answered on the immediate path
C21_Witness ==
    /\ boardId
    /\ \E t \in Ticks :
          /\ run[t].pc = "save"
          /\ "pinterest" \in Range(platforms(run[t].post))
          /\ run[t].post.mediaUrl = {"video"}
          /\ PinterestRefused(run[t].results, run[t].errors)
    /\ immediate.code = 400
    /\ immediate.mediaUrl = {"video"}
    /\ PinterestRefused(immediate.results, immediate.errors)

\* the publish operations of a platform's service
PublishOpsOf(platform) ==
    CASE platform = "facebook"  -> {"postToPage"}
      [] platform = "instagram" -> {"publishPhoto", "publishVideo"}
      [] platform = "pinterest" -> {"createPin"}
      [] OTHER                  -> {}

(***************************************************************************)
(* C26  A success is recorded only for a real publish.  In a pass of       *)
(* processScheduledPost every entry of results belongs to a platform whose *)
(* publish call of this pass returned without throwing, there are no more  *)
(* entries than such calls, and the pass sets 'published' only after one;  *)
(* on the immediate path every entry of results belongs to a platform      *)
(* whose publish operation was called, and the request ends 'published'    *)
(* only after a call.                                                      *)
(***************************************************************************)
C26_SuccessOnlyForRealPublish ==
    /\ \A t \in Ticks :
          LET s == run[t] IN
          s.post # NoPost =>
             /\ \A r \in Range(s.results) :
                   \E k \in s.published : platforms(s.post)[k] = r.platform
             /\ Len(s.results) <= Cardinality(s.published)
             /\ s.published # {} =>
                   \E p \in AccountPlatforms : publishCalls[s.post.id][p] > 0
             /\ (s.pc = "save" /\ s.post.status = "published") => s.published # {}
    /\ \A r \in Range(immediate.results) :
          PublishOpsOf(r.platform) \cap Range(immediate.calls) # {}
    /\ Len(immediate.results) <= Len(immediate.calls)
    /\ immediate.status = "published" => immediate.calls # << >>

\* a pass is at post.save() with 'published' set after a platform without
\* account failed and Pinterest's createPin returned, and an immediate
\* request was answered 200 with one success and one failure
C26_Witness ==
    /\ \E t \in Ticks :
          /\ run[t].pc = "save"
          /\ run[t].post.status = "published"
          /\ platforms(run[t].post) = << "twitter", "pinterest" >>
          /\ Len(run[t].results) = 1
          /\ Len(run[t].errors) = 1
    /\ immediate.code = 200
    /\ Len(immediate.results) = 1
    /\ Len(immediate.errors) = 1

C23_StatusCompareAndSet ==
    [][ \A t \in Ticks :
          ( /\ run[t].pc \in {"save", "catchSave"}
            /\ Steps(t)
            /\ posts[run[t].post.id].status # "scheduled" )
          => posts'[run[t].post.id].status = posts[run[t].post.id].status
      ]_vars

\* in the pass of run state s, the publish operation of the i-th listed
\* platform has been called and has returned or thrown
CalledInPass(s, i) ==
    \/ i \in s.published
    \/ \E e \in Range(s.errors) :
          e.platform = platforms(s.post)[i] /\ e.error = "Failed to publish"

(***************************************************************************)
(* C27  One publish call per platform per dispatch pass: while a publish   *)
(* call of a pass is pending for a platform, no publish call was made      *)
(* earlier in the same pass for the same platform (names compared without  *)
(* regard to letter case), and no call is ever pending for 'all'.          *)
(***************************************************************************)
C27_OneCallPerPlatformPerPass ==
    \A t \in Ticks :
        LET s == run[t] IN
        s.pc \in PublishOps =>
           /\ platforms(s.post)[s.k] # "all"
           /\ \A i \in 1..(s.k - 1) :
                 toLowerCase(platforms(s.post)[i]) = toLowerCase(platforms(s.post)[s.k])
                    => ~CalledInPass(s, i)

(***************************************************************************)
(* C24  No job is stuck forever: while the store accepts every operation   *)
(* and platform calls return (the fairness of the specification), every    *)
(* job that is in the batch of a run eventually has the stored status      *)
(* 'published' or 'failed'.                                                *)
(***************************************************************************)
C24_NoJobStuck ==
    \A j \in JobIds :
        (\E t \in Ticks : j \in Held(t)) ~> (posts[j].status \in TerminalStatuses)

(***************************************************************************)
(* C25  No starvation of due jobs: under weak fairness of the cron ticks   *)
(* and of the passes, every post with status 'scheduled' and scheduledDate *)
(* in the past is eventually in the batch of some run, also when more than *)
(* 10 posts are due and processed posts keep the status 'scheduled'.       *)
(***************************************************************************)
C25_NoStarvation ==
    \A i \in 1..NumDue :
        (i \in Due) ~> (\E k \in DOMAIN batch : batch[k].id = i)

(***************************************************************************)
(* C28  Instagram video publish protocol: a call of publishVideo polls the *)
(* container at most 30 times and posts media_publish at most once; while  *)
(* media_publish is pending or has returned, the last polled status is     *)
(* 'FINISHED' and it was posted exactly once; a call that has thrown with  *)
(* a last status other than 'FINISHED' (still 'IN_PROGRESS' after 30       *)
(* polls, another status, a failed request) never posted it; and every     *)
(* call returns or throws, given that each HTTP call returns.              *)
(***************************************************************************)
C28_VideoPublishProtocol ==
    /\ [] /\ video.attempts <= 30
          /\ video.mediaPublish <= 1
          /\ video.pc \in {"media_publish", "returned"} =>
                (video.status = "FINISHED" /\ video.mediaPublish = 1)
          /\ (video.pc = "thrown" /\ video.status # "FINISHED") => video.mediaPublish = 0
          /\ (video.pc = "thrown" /\ video.status = "FINISHED") => video.mediaPublish = 1
          /\ (video.pc = "poll" /\ video.attempts > 0) => video.status = "IN_PROGRESS"
    /\ (video.pc = "media") ~> (video.pc \in {"returned", "thrown"})

\* the call has thrown after 30 polls that all reported IN_PROGRESS
C28_Witness ==
    /\ video.pc = "thrown"
    /\ video.attempts = 30
    /\ video.status = "IN_PROGRESS"
    /\ video.mediaPublish = 0

(***************************************************************************)
(* C29  A callback reports success only for a linked account: whenever a   *)
(* callback has been answered with the success page or success JSON (as    *)
(* the first delivery of its code, or as a duplicate with 'Already         *)
(* connected'), the user.save() of saveAccountToStorage has completed for  *)
(* a delivery of that platform and code.                                   *)
(***************************************************************************)
C29_SuccessOnlyWhenLinked ==
    \A r \in Requests :
        (callbacks[r].pc = "done" /\ callbacks[r].response \in {"200", "Already connected"})
        => \E q \in Requests :
              /\ SameKey(callbacks[q], callbacks[r])
              /\ callbacks[q].pc = "done"
              /\ callbacks[q].response = "200"

\* the entries of platform p in the stored document of user u
EntriesOf(u, p) ==
    { i \in DOMAIN users[u].connectedAccounts : users[u].connectedAccounts[i].platform = p }

\* a due job for platform p of user u would record 'Account not connected
\* or inactive'
NotConnected(u, p) == find(users[u].connectedAccounts, p) = NoAccount

====
